---------------------------- MODULE Spec2Model ----------------------------
(***************************************************************************)
(* SMART CVD Risk Reduction Calculator (src/cvd_risk_app.py).              *)
(*                                                                         *)
(* The program is one Streamlit script.  Streamlit keeps the value of      *)
(* every widget in the session and re-executes the whole script, top to    *)
(* bottom, after each user interaction.  The model has                     *)
(*   - the pure calculations (estimate_smart_risk, convert_5yr, the LDL    *)
(*     adjustment, the ARR/RRR block) as operators,                        *)
(*   - one script execution as the operator Script, and                    *)
(*   - the session as a state machine whose actions are the user's         *)
(*     interactions, each followed by the script's re-execution.           *)
(*                                                                         *)
(* Units.  The script computes in IEEE doubles; the model computes in      *)
(* integers:                                                               *)
(*   age, sbp, egfr                  whole numbers, as entered             *)
(*   total_chol, hdl, crp, LDL, tg,  tenths (the inputs' step is 0.1)      *)
(*   weight, height                                                        *)
(*   risk10, risk5, baseline_c,      tenths of a percent (the script       *)
(*   final, arr, rrr                 rounds them to one decimal)           *)
(*   adj_ldl                         1e-5 mmol/L (exact: tenths x % x %)   *)
(*   lp, exp, log                    1e-6 (fixed point)                    *)
(* convert_5yr, adj_ldl, arr and rrr are exact in these units.             *)
(* estimate_smart_risk is a fixed-point evaluation of the same formula:    *)
(* its error is below 1e-5 before the rounding, so on a small fraction of  *)
(* profiles the rounded value differs from the double's by one tenth.      *)
(***************************************************************************)
EXTENDS Integers, Sequences, FiniteSets

VARIABLES
    widgets,    \* the session: the value of every widget of the form
    run,        \* what the last execution of the script produced
    core_in,    \* result calculation applied to arbitrary inputs: the inputs
    core_out,   \*   and what the script produced for them
    ldl_in,     \* LDL adjustment applied to a therapy selection: the inputs
    ldl_out,    \*   and the anticipated LDL-C with the add-on offer
    conv_in,    \* convert_5yr applied to two ten-year risks: the inputs
    conv_out    \*   and the two five-year risks

vars == <<widgets, run, core_in, core_out, ldl_in, ldl_out, conv_in, conv_out>>

-----------------------------------------------------------------------------
(* Bounds of the model *)

\* at most this many widgets are away from their defaults at any time
MaxChanged == 2
\* each probed numeric range is cut into GridN equal parts
GridN == 2
\* terms of the Taylor series of e^f, 0 <= f < 1
ExpTerms == 10
\* terms of the series of atanh, |z| <= 1/3
LnTerms == 7

-----------------------------------------------------------------------------
(* Fixed-point arithmetic standing for math.exp, math.log and ** *)

ONE == 1000 * 1000

\* e, 1/e, ln 2 and -ln 0.900 in units of 1e-6
E_FIX == 2718282
INV_E == 367879
LN2 == 693147
NEG_LN_0900 == 105361

Min(a, b) == IF a < b THEN a ELSE b
Max(a, b) == IF a > b THEN a ELSE b

\* a * b / ONE for a, b >= 0, without leaving 32 bits
MulFix(a, b) ==
    LET a1 == a \div 1000
        a0 == a % 1000
        b1 == b \div 1000
        b0 == b % 1000
    IN  a1 * b1 + (a1 * b0 + a0 * b1 + (a0 * b0) \div 1000) \div 1000

\* round(num / den) for num >= 0, den > 0; a tie goes to the even neighbour,
\* as Python's round() does
RoundHalfEvenDiv(num, den) ==
    LET q == num \div den
        r == num % den
    IN  IF 2 * r > den \/ (2 * r = den /\ q % 2 = 1) THEN q + 1 ELSE q

\* 1 + f/k (1 + f/(k+1) (1 + ...)): e^f by its Taylor series
RECURSIVE ExpSeries(_, _)
ExpSeries(f, k) ==
    IF k > ExpTerms THEN ONE
    ELSE ONE + MulFix(f, ExpSeries(f, k + 1)) \div k

\* v * e^n
RECURSIVE ScaleE(_, _)
ScaleE(v, n) ==
    IF n = 0 THEN v
    ELSE IF n > 0 THEN ScaleE(MulFix(v, E_FIX), n - 1)
    ELSE ScaleE(MulFix(v, INV_E), n + 1)

\* math.exp(x): e^x = e^floor(x) * e^frac(x)
Exp(x) ==
    LET n == x \div ONE
        f == x - n * ONE
    IN  ScaleE(ExpSeries(f, 1), n)

\* z/(2k+1) + z^3/(2k+3) + ... with z the current odd power
RECURSIVE Atanh(_, _, _)
Atanh(z, z2, k) ==
    IF k > LnTerms THEN 0
    ELSE z \div (2 * k + 1) + Atanh(MulFix(z, z2), z2, k + 1)

\* ln(num / den) for 1 <= num/den < 2: 2 atanh((x - 1) / (x + 1))
LnUnit(num, den) ==
    LET z == ((num - den) * ONE) \div (num + den)
    IN  2 * Atanh(z, MulFix(z, z), 0)

\* ln(num / den) for num, den > 0: halve or double into [1, 2)
RECURSIVE Ln(_, _)
Ln(num, den) ==
    IF num >= 2 * den THEN LN2 + Ln(num, 2 * den)
    ELSE IF num < den THEN Ln(2 * num, den) - LN2
    ELSE LnUnit(num, den)

\* floor of the square root, by bisection on lo <= sqrt(n) < hi
RECURSIVE IsqrtIn(_, _, _)
IsqrtIn(n, lo, hi) ==
    IF hi - lo <= 1 THEN lo
    ELSE LET mid == (lo + hi) \div 2
         IN  IF mid * mid <= n THEN IsqrtIn(n, mid, hi) ELSE IsqrtIn(n, lo, mid)

Isqrt(n) == IsqrtIn(n, 0, 46340)

-----------------------------------------------------------------------------
(* Intervention and therapy data, lines 20-40 *)

interventions ==
    [ n \in {"Smoking cessation", "Antiplatelet (ASA or clopidogrel)",
             "Weight loss to ideal BMI", "Empagliflozin", "Icosapent ethyl",
             "Mediterranean diet", "Physical activity", "Alcohol moderation",
             "Stress reduction", "Semaglutide"} |->
        CASE n = "Smoking cessation"                 -> [arr_lifetime |-> 17, arr_5yr |-> 5]
          [] n = "Antiplatelet (ASA or clopidogrel)" -> [arr_lifetime |-> 6,  arr_5yr |-> 2]
          [] n = "Weight loss to ideal BMI"          -> [arr_lifetime |-> 10, arr_5yr |-> 3]
          [] n = "Empagliflozin"                     -> [arr_lifetime |-> 6,  arr_5yr |-> 2]
          [] n = "Icosapent ethyl"                   -> [arr_lifetime |-> 5,  arr_5yr |-> 2]
          [] n = "Mediterranean diet"                -> [arr_lifetime |-> 9,  arr_5yr |-> 3]
          [] n = "Physical activity"                 -> [arr_lifetime |-> 9,  arr_5yr |-> 3]
          [] n = "Alcohol moderation"                -> [arr_lifetime |-> 5,  arr_5yr |-> 2]
          [] n = "Stress reduction"                  -> [arr_lifetime |-> 3,  arr_5yr |-> 1]
          [] OTHER                                   -> [arr_lifetime |-> 4,  arr_5yr |-> 1] ]

ldl_therapies ==
    [ n \in {"Atorvastatin 80 mg", "Rosuvastatin 20 mg", "Ezetimibe",
             "Bempedoic acid", "PCSK9 inhibitor", "Inclisiran (siRNA)"} |->
        CASE n = "Atorvastatin 80 mg" -> 50
          [] n = "Rosuvastatin 20 mg" -> 55
          [] n = "Ezetimibe"          -> 20
          [] n = "Bempedoic acid"     -> 18
          [] n = "PCSK9 inhibitor"    -> 60
          [] OTHER                    -> 40 ]

-----------------------------------------------------------------------------
(* Risk functions, lines 43-56 *)

\* lp of line 48, in units of 1e-6; crp in tenths, so crp + 1 = (crp + 10) / 10
linear_predictor(age, sex, sbp, tc, hdl, smoke, dm, egfr, crp, vasc) ==
    LET sex_v   == IF sex = "Male" THEN 1 ELSE 0
        smoke_v == IF smoke THEN 1 ELSE 0
        dm_v    == IF dm THEN 1 ELSE 0
        crp_l   == Ln(crp + 10, 10)
    IN  64000 * age + 340000 * sex_v + 20000 * sbp + 25000 * tc
        - 25000 * hdl + 440000 * smoke_v + 510000 * dm_v
        - 20000 * egfr + crp_l \div 4 + 400000 * vasc

\* 1 - 0.900 ** math.exp(x), in units of 1e-6, with 0.9 ** y = e^(y ln 0.9).
\* From x = 5 on, e^x > 148 and 0.9 ** e^x < 2e-7 rounds to nothing.
\* a slip: 0.900 * math.exp(x) in place of 0.900 ** math.exp(x)
r10_times(x) == ONE - MulFix(900000, Exp(Min(x, 5 * ONE)))

r10_of(x) ==
    IF x >= 5 * ONE THEN ONE
    ELSE ONE - Exp(0 - MulFix(Exp(x), NEG_LN_0900))

\* math.log raises ValueError ("math domain error") for crp + 1 <= 0
log_domain_error(crp) == crp + 10 <= 0

\* estimate_smart_risk: the ten-year risk in tenths of a percent
estimate_smart_risk(age, sex, sbp, tc, hdl, smoke, dm, egfr, crp, vasc) ==
    LET lp  == linear_predictor(age, sex, sbp, tc, hdl, smoke, dm, egfr, crp, vasc)
        r10 == r10_of(lp - 5800000)
    IN  IF r10 >= 0 THEN RoundHalfEvenDiv(r10, 1000)
        ELSE 0 - RoundHalfEvenDiv(0 - r10, 1000)

\* convert_5yr: round((1 - (1 - p) ** 0.5) * 100, 1) with p = r10 / 100.
\* In tenths: 1000 - sqrt(1000 (1000 - r10)), rounded to the nearest integer;
\* the square root of an integer is never half an odd integer, so no tie.
\* a slip: the survival (1 - p) ** 0.5 returned in place of the risk
convert_5yr_survival(r10) == (Isqrt(4 * 1000 * (1000 - r10)) + 1) \div 2

convert_5yr(r10) ==
    1000 - (Isqrt(4 * 1000 * (1000 - r10)) + 1) \div 2

-----------------------------------------------------------------------------
(* The form: widgets, their defaults and ranges, lines 59-136 *)

AgeMin == 30
AgeMax == 90
AgeDefault == 60
EgfrMin == 15
EgfrMax == 120
EgfrDefault == 80
SbpMin == 80
SbpMax == 220
SbpCurDefault == 145
SbpTgtDefault == 120
\* tenths of a kg, of a cm, of a mmol/L, of a mg/L
WeightMin == 400
WeightMax == 2000
WeightDefault == 750
HeightMin == 1400
HeightMax == 2100
HeightDefault == 1700
TcMin == 20
TcMax == 100
TcDefault == 50
HdlMin == 5
HdlMax == 30
HdlDefault == 10
CrpMin == 1
CrpMax == 200
CrpDefault == 20
LdlMin == 5
LdlMax == 60
LdlDefault == 35
TgMin == 3
TgMax == 50
TgDefault == 12

Statins == {"None", "Atorvastatin 80 mg", "Rosuvastatin 20 mg"}
Sexes == {"Male", "Female"}

\* the widgets by kind
Sliders == {"age", "egfr"}
NumberInputs == {"weight", "height", "total_chol", "hdl", "crp", "baseline_ldl",
                 "tg", "sbp_cur", "sbp_tgt"}
Checkboxes == {"smoking", "diabetes", "vasc1", "vasc2", "vasc3", "ez", "bemp",
               "pcsk9", "incl", "smoke_iv", "sem_iv", "diet_iv", "act_iv",
               "alc_iv", "str_iv", "asa_iv", "sgl_iv", "ico_iv"}

\* hba1c (line 86) is read by nothing, and the two buttons of lines 173-179
\* only export what the execution built: they are left out.
\* the session of a freshly loaded form: every widget holds its default
\* (the first option of a radio or selectbox, False for a checkbox)
DefaultWidgets ==
    [ age |-> AgeDefault, sex |-> "Male", weight |-> WeightDefault,
      height |-> HeightDefault, smoking |-> FALSE, diabetes |-> FALSE,
      egfr |-> EgfrDefault, vasc1 |-> FALSE, vasc2 |-> FALSE, vasc3 |-> FALSE,
      total_chol |-> TcDefault, hdl |-> HdlDefault, crp |-> CrpDefault,
      baseline_ldl |-> LdlDefault, tg |-> TgDefault,
      statin |-> "None", ez |-> FALSE, bemp |-> FALSE,
      pcsk9 |-> FALSE, incl |-> FALSE,
      smoke_iv |-> FALSE, sem_iv |-> FALSE, diet_iv |-> FALSE, act_iv |-> FALSE,
      alc_iv |-> FALSE, str_iv |-> FALSE, asa_iv |-> FALSE, sgl_iv |-> FALSE,
      ico_iv |-> FALSE, sbp_cur |-> SbpCurDefault, sbp_tgt |-> SbpTgtDefault ]

\* [min, max] of a slider or number input
WidgetMin(name) ==
    CASE name = "age" -> AgeMin          [] name = "egfr" -> EgfrMin
      [] name = "weight" -> WeightMin    [] name = "height" -> HeightMin
      [] name = "total_chol" -> TcMin    [] name = "hdl" -> HdlMin
      [] name = "crp" -> CrpMin          [] name = "baseline_ldl" -> LdlMin
      [] name = "tg" -> TgMin            [] OTHER -> SbpMin

WidgetMax(name) ==
    CASE name = "age" -> AgeMax          [] name = "egfr" -> EgfrMax
      [] name = "weight" -> WeightMax    [] name = "height" -> HeightMax
      [] name = "total_chol" -> TcMax    [] name = "hdl" -> HdlMax
      [] name = "crp" -> CrpMax          [] name = "baseline_ldl" -> LdlMax
      [] name = "tg" -> TgMax            [] OTHER -> SbpMax

-----------------------------------------------------------------------------
(* One execution of the script *)

\* line 65, bmi = weight / (height / 100) ** 2, compared with 30 (line 116)
bmi_below_30(weight, height) == weight * 100000 < 30 * height * height

\* round(bmi, 1) of line 157, in tenths
bmi_rounded(weight, height) == RoundHalfEvenDiv(weight * 1000000, height * height)

\* line 74
vasc_count_of(ws) ==
    (IF ws.vasc1 THEN 1 ELSE 0) + (IF ws.vasc2 THEN 1 ELSE 0) + (IF ws.vasc3 THEN 1 ELSE 0)

\* lines 95-100, in units of 1e-5 mmol/L: tenths x percent x percent
\* a slip: the two reductions added, not composed
adj_ldl_additive(baseline_ldl, statin, ez) ==
    LET pct == (IF statin /= "None" THEN ldl_therapies[statin] ELSE 0)
               + (IF ez THEN ldl_therapies["Ezetimibe"] ELSE 0)
    IN  Max(baseline_ldl * 100 * (100 - pct), 100000)

\* a slip: (1 + pct / 100) in place of (1 - pct / 100)
adj_ldl_increase(baseline_ldl, statin, ez) ==
    LET a0 == baseline_ldl * 100 * 100
        a1 == IF statin /= "None" THEN (a0 * (100 + ldl_therapies[statin])) \div 100 ELSE a0
        a2 == IF ez THEN (a1 * (100 + ldl_therapies["Ezetimibe"])) \div 100 ELSE a1
    IN  Max(a2, 100000)

\* a slip: line 100 left out
adj_ldl_nofloor(baseline_ldl, statin, ez) ==
    LET a0 == baseline_ldl * 100 * 100
        a1 == IF statin /= "None" THEN (a0 * (100 - ldl_therapies[statin])) \div 100 ELSE a0
    IN  IF ez THEN (a1 * (100 - ldl_therapies["Ezetimibe"])) \div 100 ELSE a1

adj_ldl_of(baseline_ldl, statin, ez) ==
    LET a0 == baseline_ldl * 100 * 100
        a1 == IF statin /= "None" THEN (a0 * (100 - ldl_therapies[statin])) \div 100 ELSE a0
        a2 == IF ez THEN (a1 * (100 - ldl_therapies["Ezetimibe"])) \div 100 ELSE a1
    IN  Max(a2, 100000)

\* line 104: the PCSK9 inhibitor and Inclisiran checkboxes are created
addons_offered(adj_ldl) == adj_ldl > 180000

\* line 128: the Icosapent ethyl checkbox is created
ico_offered(tg) == tg > 17

\* lines 114-117: disabled= of the two gated lifestyle checkboxes
smoke_iv_disabled(ws) == ~ws.smoking
sem_iv_disabled(ws) == bmi_below_30(ws.weight, ws.height)

\* lines 145-149
baseline_c_of(baseline) == Min(baseline, 850)

final_of(baseline_c) == baseline_c - 100

arr_of(baseline_c, final) == baseline_c - final

\* a slip: the min(..., 75) left out
rrr_nocap(arr, baseline_c) == RoundHalfEvenDiv(arr * 1000, baseline_c)

rrr_of(arr, baseline_c) ==
    IF arr * 100 >= 75 * baseline_c THEN 750
    ELSE RoundHalfEvenDiv(arr * 1000, baseline_c)

\* lines 141-142: the call of estimate_smart_risk
\* a slip: the target SBP passed in place of the current SBP
risk10_call_target(ws) ==
    estimate_smart_risk(ws.age, ws.sex, ws.sbp_tgt, ws.total_chol, ws.hdl,
                        ws.smoking, ws.diabetes, ws.egfr, ws.crp, vasc_count_of(ws))

risk10_call(ws) ==
    estimate_smart_risk(ws.age, ws.sex, ws.sbp_cur, ws.total_chol, ws.hdl,
                        ws.smoking, ws.diabetes, ws.egfr, ws.crp, vasc_count_of(ws))

\* lines 155-171; "; ".join(...) and the string concatenations are kept as
\* the sequence of their pieces
result_row(ws, adj_ldl, ico_iv, baseline_c, final, arr, rrr) ==
    [ Age |-> ws.age, Sex |-> ws.sex, Smoking |-> ws.smoking,
      Diabetes |-> ws.diabetes, eGFR |-> ws.egfr, Vascular |-> vasc_count_of(ws),
      BMI |-> bmi_rounded(ws.weight, ws.height),
      TC |-> ws.total_chol, HDL |-> ws.hdl, hsCRP |-> ws.crp, LDL0 |-> ws.baseline_ldl,
      PreTx |-> <<ws.statin>> \o (IF ws.ez THEN <<"; Ezetimibe">> ELSE <<>>),
      AddTx |-> (IF ws.pcsk9 THEN <<"; PCSK9i">> ELSE <<>>)
                \o (IF ws.incl THEN <<"; Inclisiran">> ELSE <<>>),
      Lifestyle |-> (IF ws.smoke_iv THEN <<"Smoking cessation">> ELSE <<>>)
                    \o (IF ws.sem_iv THEN <<"Semaglutide">> ELSE <<>>)
                    \o (IF ws.diet_iv THEN <<"Mediterranean diet">> ELSE <<>>)
                    \o (IF ws.act_iv THEN <<"Physical activity">> ELSE <<>>)
                    \o (IF ws.alc_iv THEN <<"Alcohol moderation">> ELSE <<>>)
                    \o (IF ws.str_iv THEN <<"Stress reduction">> ELSE <<>>),
      Other |-> (IF ws.asa_iv THEN <<"Antiplatelet">> ELSE <<>>)
                \o (IF ws.sgl_iv THEN <<"SGLT2i">> ELSE <<>>)
                \o (IF ico_iv THEN <<"Icosapent ethyl">> ELSE <<>>),
      Baseline |-> baseline_c, Final |-> final, ARR |-> arr, RRR |-> rrr ]

NoRisk == [computed |-> FALSE]
NoSummary == [written |-> FALSE]
NoRow == [written |-> FALSE]

\* The whole script on the session ws.  shown is what the form displays and
\* offers (tab 2); err is the exception that ended the execution ("none": it
\* ran to its end); risk holds risk10 and risk5 once lines 141-143 assigned
\* them; summary is what lines 150-152 wrote; row is the row of the result
\* table.  The name pcsk9 is bound only when line 105 ran, so line 160 raises
\* NameError otherwise; line 149 divides by baseline_c.
Script(ws) ==
    LET adj_ldl == adj_ldl_of(ws.baseline_ldl, ws.statin, ws.ez)
        offered == addons_offered(adj_ldl)
        ico_iv  == IF ico_offered(ws.tg) THEN ws.ico_iv ELSE FALSE
        shown   == [ adj_ldl |-> adj_ldl, addons_offered |-> offered,
                     ico_offered |-> ico_offered(ws.tg),
                     smoke_iv_disabled |-> smoke_iv_disabled(ws),
                     sem_iv_disabled |-> sem_iv_disabled(ws) ]
    IN  IF log_domain_error(ws.crp)
        THEN [ shown |-> shown, err |-> "ValueError", risk |-> NoRisk,
               summary |-> NoSummary, row |-> NoRow ]
        ELSE
        LET risk10     == risk10_call(ws)
            risk5      == convert_5yr(risk10)
            baseline   == risk10
            baseline_c == baseline_c_of(baseline)
            final      == final_of(baseline_c)
            arr        == arr_of(baseline_c, final)
            risk       == [computed |-> TRUE, risk10 |-> risk10, risk5 |-> risk5]
        IN  IF baseline_c = 0
            THEN [ shown |-> shown, err |-> "ZeroDivisionError", risk |-> risk,
                   summary |-> NoSummary, row |-> NoRow ]
            ELSE
            LET rrr     == rrr_of(arr, baseline_c)
                summary == [ written |-> TRUE, baseline_c |-> baseline_c,
                             final |-> final, arr |-> arr, rrr |-> rrr,
                             adj_ldl |-> adj_ldl ]
            IN  IF ~offered
                THEN [ shown |-> shown, err |-> "NameError", risk |-> risk,
                       summary |-> summary, row |-> NoRow ]
                ELSE [ shown |-> shown, err |-> "none", risk |-> risk,
                       summary |-> summary,
                       row |-> [ written |-> TRUE,
                                 cells |-> result_row(ws, adj_ldl, ico_iv, baseline_c,
                                                      final, arr, rrr) ] ]

\* The session after an execution: Streamlit forgets the value of a widget
\* the execution did not create, so the next one created starts from False.
session_after(ws) ==
    LET offered == addons_offered(adj_ldl_of(ws.baseline_ldl, ws.statin, ws.ez))
    IN  [ ws EXCEPT !.pcsk9  = IF offered THEN @ ELSE FALSE,
                    !.incl   = IF offered THEN @ ELSE FALSE,
                    !.ico_iv = IF ico_offered(ws.tg) THEN @ ELSE FALSE ]

-----------------------------------------------------------------------------
(* The session: a user interaction, then the script runs again *)

\* the values tried for a slider or number input: its ends and its default
FormValues(name) == {WidgetMin(name), DefaultWidgets[name], WidgetMax(name)}

\* A checkbox can be clicked when the last execution created it, enabled.
\* disabled= only stops the clicks: the checkbox keeps the value it holds in
\* the session, and st.checkbox goes on returning it.
CanToggle(name) ==
    CASE name \in {"pcsk9", "incl"} -> run.shown.addons_offered
      [] name = "ico_iv"            -> run.shown.ico_offered
      [] name = "smoke_iv"          -> ~run.shown.smoke_iv_disabled
      [] name = "sem_iv"            -> ~run.shown.sem_iv_disabled
      [] OTHER                      -> TRUE

\* number of widgets whose value is not the default
Changed(ws) == Cardinality({ name \in DOMAIN DefaultWidgets : ws[name] /= DefaultWidgets[name] })

\* the widget takes the value, Streamlit re-executes the script
Rerun(ws) ==
    /\ Changed(session_after(ws)) <= MaxChanged
    /\ widgets' = session_after(ws)
    /\ run' = Script(ws)
    /\ UNCHANGED <<core_in, core_out, ldl_in, ldl_out, conv_in, conv_out>>

MoveSlider(name, v) ==
    /\ name \in Sliders
    /\ v \in WidgetMin(name)..WidgetMax(name)
    /\ v /= widgets[name]
    /\ Rerun([widgets EXCEPT ![name] = v])

EnterNumber(name, v) ==
    /\ name \in NumberInputs
    /\ v \in WidgetMin(name)..WidgetMax(name)
    /\ v /= widgets[name]
    /\ Rerun([widgets EXCEPT ![name] = v])

ChooseSex(v) ==
    /\ v \in Sexes
    /\ v /= widgets.sex
    /\ Rerun([widgets EXCEPT !.sex = v])

ChooseStatin(v) ==
    /\ v \in Statins
    /\ v /= widgets.statin
    /\ Rerun([widgets EXCEPT !.statin = v])

ToggleCheckbox(name) ==
    /\ name \in Checkboxes
    /\ CanToggle(name)
    /\ Rerun([widgets EXCEPT ![name] = ~@])

\* a calculation not applied yet
NotCalled == [called |-> FALSE]

Init ==
    /\ widgets = DefaultWidgets
    /\ run = Script(DefaultWidgets)
    /\ core_in = NotCalled
    /\ core_out = NotCalled
    /\ ldl_in = NotCalled
    /\ ldl_out = NotCalled
    /\ conv_in = NotCalled
    /\ conv_out = NotCalled

Next ==
    \/ \E name \in Sliders : \E v \in FormValues(name) : MoveSlider(name, v)
    \/ \E name \in NumberInputs : \E v \in FormValues(name) : EnterNumber(name, v)
    \/ \E v \in Sexes : ChooseSex(v)
    \/ \E v \in Statins : ChooseStatin(v)
    \/ \E name \in Checkboxes : ToggleCheckbox(name)

Spec == Init /\ [][Next]_vars

-----------------------------------------------------------------------------
(* The result calculation on arbitrary inputs, the form's ranges and beyond *)

Grid(lo, hi) == { lo + (i * (hi - lo)) \div GridN : i \in 0..GridN }

ProbeAge == Grid(AgeMin, AgeMax) \cup {0}
ProbeSbp == Grid(SbpMin, SbpMax)
ProbeCrp == Grid(CrpMin, CrpMax) \cup {0 - 20, 0 - 10, 0}
ProbeVasc == {<<FALSE, FALSE, FALSE>>, <<TRUE, FALSE, FALSE>>,
              <<TRUE, TRUE, FALSE>>, <<TRUE, TRUE, TRUE>>}

Calculate(age, sex, sbp, tc, hdl, smoke, dm, egfr, crp, vasc) ==
    LET ws == [ DefaultWidgets EXCEPT
                  !.age = age, !.sex = sex, !.sbp_cur = sbp, !.total_chol = tc,
                  !.hdl = hdl, !.smoking = smoke, !.diabetes = dm, !.egfr = egfr,
                  !.crp = crp, !.vasc1 = vasc[1], !.vasc2 = vasc[2], !.vasc3 = vasc[3] ]
    IN  /\ core_in' = ws
        /\ core_out' = [called |-> TRUE, run |-> Script(ws)]
        /\ UNCHANGED <<widgets, run, ldl_in, ldl_out, conv_in, conv_out>>

NextCore ==
    /\ core_in = NotCalled
    /\ \E age \in ProbeAge, sex \in Sexes, sbp \in ProbeSbp, tc \in {TcMin, TcMax},
          hdl \in {HdlMin, HdlMax}, smoke \in BOOLEAN, dm \in BOOLEAN,
          egfr \in {EgfrMin, EgfrMax}, crp \in ProbeCrp, vasc \in ProbeVasc :
           Calculate(age, sex, sbp, tc, hdl, smoke, dm, egfr, crp, vasc)

SpecCore == Init /\ [][NextCore]_vars

\* the profiles the form accepts
ValidProfile(ws) ==
    /\ ws.age \in AgeMin..AgeMax
    /\ ws.sex \in Sexes
    /\ ws.sbp_cur \in SbpMin..SbpMax
    /\ ws.total_chol \in TcMin..TcMax
    /\ ws.hdl \in HdlMin..HdlMax
    /\ ws.egfr \in EgfrMin..EgfrMax
    /\ ws.crp \in CrpMin..CrpMax
    /\ vasc_count_of(ws) \in 0..3

-----------------------------------------------------------------------------
(* The LDL adjustment on every baseline the form accepts *)

AdjustLdl(baseline_ldl, statin, ez) ==
    /\ ldl_in' = [baseline_ldl |-> baseline_ldl, statin |-> statin, ez |-> ez]
    /\ ldl_out' = [called |-> TRUE,
                   adj_ldl |-> adj_ldl_of(baseline_ldl, statin, ez),
                   addons_offered |-> addons_offered(adj_ldl_of(baseline_ldl, statin, ez))]
    /\ UNCHANGED <<widgets, run, core_in, core_out, conv_in, conv_out>>

NextLdl ==
    /\ ldl_in = NotCalled
    /\ \E baseline_ldl \in LdlMin..LdlMax, statin \in Statins, ez \in BOOLEAN :
           AdjustLdl(baseline_ldl, statin, ez)

SpecLdl == Init /\ [][NextLdl]_vars

-----------------------------------------------------------------------------
(* convert_5yr on two ten-year risks, one decimal each *)

Convert(r10_a, r10_b) ==
    /\ conv_in' = [r10_a |-> r10_a, r10_b |-> r10_b]
    /\ conv_out' = [called |-> TRUE, r5_a |-> convert_5yr(r10_a), r5_b |-> convert_5yr(r10_b)]
    /\ UNCHANGED <<widgets, run, core_in, core_out, ldl_in, ldl_out>>

NextConv ==
    /\ conv_in = NotCalled
    /\ \E r10_a \in 0..1000 : \E r10_b \in 0..r10_a : Convert(r10_a, r10_b)

SpecConv == Init /\ [][NextConv]_vars

-----------------------------------------------------------------------------
(* Properties *)

Contains(seq, x) == \E i \in 1..Len(seq) : seq[i] = x

\* the widgets that are the patient's profile; the others are the selection
\* of therapies, interventions and the target SBP
ProfileWidgets ==
    {"age", "sex", "weight", "height", "smoking", "diabetes", "egfr", "vasc1",
     "vasc2", "vasc3", "total_chol", "hdl", "crp", "baseline_ldl", "tg", "sbp_cur"}

\* C1: every execution of the result calculation either produces the result
\* (summary and row) or is rejected for an invalid input (the ValueError of
\* math.log); no other failure occurs.
C1_ResultOrInvalidInput == run.err \in {"none", "ValueError"}

\* C2: whenever a relative risk reduction is reported, it is at most 75.0,
\* for inputs inside and outside the form's ranges.
C2_RrrAtMost75 ==
    (core_out.called /\ core_out.run.summary.written)
        => core_out.run.summary.rrr <= 750

C2_Witness ==
    /\ core_out.called
    /\ core_out.run.summary.written
    /\ core_out.run.summary.baseline_c < 100
    /\ core_out.run.summary.rrr = 750

\* C3: a gated intervention is in the result row only if its eligibility
\* predicate holds for the inputs of that execution: PCSK9i and Inclisiran
\* only if adj_ldl > 1.8, Icosapent ethyl only if TG > 1.7, Smoking cessation
\* only if Current smoking is ticked, Semaglutide only if BMI >= 30.
C3_GatedOnlyIfEligible ==
    run.row.written =>
        LET cells == run.row.cells
        IN  /\ Contains(cells.AddTx, "; PCSK9i") => run.shown.adj_ldl > 180000
            /\ Contains(cells.AddTx, "; Inclisiran") => run.shown.adj_ldl > 180000
            /\ Contains(cells.Other, "Icosapent ethyl") => widgets.tg > 17
            /\ Contains(cells.Lifestyle, "Smoking cessation") => cells.Smoking
            /\ Contains(cells.Lifestyle, "Semaglutide")
                   => widgets.weight * 100000 >= 30 * widgets.height * widgets.height

\* C4: the anticipated LDL-C is never below 1.0 mmol/L, and a baseline of 1.0
\* with a statin or ezetimibe applied gives exactly 1.0.
C4_LdlFloor ==
    ldl_out.called =>
        /\ ldl_out.adj_ldl >= 100000
        /\ (ldl_in.baseline_ldl = 10 /\ (ldl_in.statin /= "None" \/ ldl_in.ez))
               => ldl_out.adj_ldl = 100000

C4_Witness ==
    /\ ldl_out.called
    /\ ldl_in.baseline_ldl = 10
    /\ ldl_in.statin = "Rosuvastatin 20 mg"
    /\ ldl_in.ez
    /\ ldl_out.adj_ldl = 100000

\* C5: adj_ldl = max(1.0, baseline x (1 - statin_pct/100) x (1 - 20/100 if
\* ezetimibe)), statin_pct being 0, 50 or 55: the reductions compose
\* multiplicatively.  Baseline 3.5 with the 55% statin and ezetimibe gives
\* 1.26, and the PCSK9 inhibitor / Inclisiran options are then not offered.
C5_LdlMultiplicative ==
    ldl_out.called =>
        LET statin_pct == CASE ldl_in.statin = "None" -> 0
                            [] ldl_in.statin = "Atorvastatin 80 mg" -> 50
                            [] ldl_in.statin = "Rosuvastatin 20 mg" -> 55
            ez_pct     == IF ldl_in.ez THEN 20 ELSE 0
        IN  /\ ldl_out.adj_ldl
                 = Max(100000, ldl_in.baseline_ldl * (100 - statin_pct) * (100 - ez_pct))
            /\ (ldl_in.baseline_ldl = 35 /\ statin_pct = 55 /\ ldl_in.ez)
                   => (ldl_out.adj_ldl = 126000 /\ ~ldl_out.addons_offered)

C5_Witness ==
    /\ ldl_out.called
    /\ ldl_in = [baseline_ldl |-> 35, statin |-> "Rosuvastatin 20 mg", ez |-> TRUE]
    /\ ldl_out.adj_ldl = 126000
    /\ ~ldl_out.addons_offered

\* C6: for every profile the form accepts, estimate_smart_risk returns a
\* percentage in [0, 100].
C6_RiskInRange ==
    (core_out.called /\ ValidProfile(core_in)) =>
        /\ core_out.run.risk.computed
        /\ core_out.run.risk.risk10 >= 0
        /\ core_out.run.risk.risk10 <= 1000

C6_Witness ==
    /\ core_out.called
    /\ ValidProfile(core_in)
    /\ core_out.run.risk.computed
    /\ core_out.run.risk.risk10 = 1000

\* C7: convert_5yr is monotonic on ten-year risks of one decimal in [0, 100]:
\* r10_a > r10_b implies convert_5yr(r10_a) >= convert_5yr(r10_b).
C7_Convert5yrMonotonic ==
    (conv_out.called /\ conv_in.r10_a > conv_in.r10_b)
        => conv_out.r5_a >= conv_out.r5_b

\* two different risks that the rounding brings to the same five-year risk
C7_Witness ==
    /\ conv_out.called
    /\ conv_in.r10_a > conv_in.r10_b
    /\ conv_out.r5_a = conv_out.r5_b

\* C8: the reported baseline, post-intervention risk, ARR and RRR do not
\* depend on the selection: the post-intervention risk is the baseline
\* capped at 85 minus a flat 10; the four reported numbers are those of the
\* same profile with nothing selected; and an interaction that leaves the
\* profile as it was leaves them as they were.
Reported(r) ==
    IF r.summary.written
    THEN <<r.summary.baseline_c, r.summary.final, r.summary.arr, r.summary.rrr>>
    ELSE <<>>

\* the session ws with every selection widget back at its default
NothingSelected(ws) ==
    [ name \in DOMAIN ws |->
        IF name \in ProfileWidgets THEN ws[name] ELSE DefaultWidgets[name] ]

C8_SelectionIndependent ==
    /\ [](run.summary.written =>
            /\ run.summary.baseline_c = Min(run.risk.risk10, 850)
            /\ run.summary.final = run.summary.baseline_c - 100)
    /\ [](Reported(run) = Reported(Script(NothingSelected(widgets))))
    /\ [][(\A name \in ProfileWidgets : widgets'[name] = widgets[name])
            => Reported(run') = Reported(run)]_vars

C8_Witness ==
    /\ run.summary.written
    /\ widgets.statin = "Rosuvastatin 20 mg"
    /\ widgets.sbp_tgt /= DefaultWidgets.sbp_tgt
    /\ \A name \in ProfileWidgets : widgets[name] = DefaultWidgets[name]

\* C9: the reported post-intervention risk is in [0, 100] and the reported
\* ARR does not exceed the reported baseline.
C9_FinalIsProbability ==
    run.summary.written =>
        /\ run.summary.final >= 0
        /\ run.summary.final <= 1000
        /\ run.summary.arr <= run.summary.baseline_c

\* C10, as stated: the anticipated LDL-C never exceeds the baseline entered.
C10_NeverAboveBaseline ==
    ldl_out.called => ldl_out.adj_ldl <= ldl_in.baseline_ldl * 100 * 100

\* C10, amended: the anticipated LDL-C never exceeds the larger of the
\* baseline entered and the 1.0 mmol/L floor; from a baseline of 1.0 on it
\* never exceeds the baseline.
C10_NeverAboveBaselineOrFloor ==
    ldl_out.called =>
        /\ ldl_out.adj_ldl <= Max(ldl_in.baseline_ldl * 100 * 100, 100000)
        /\ ldl_in.baseline_ldl >= 10 => ldl_out.adj_ldl <= ldl_in.baseline_ldl * 100 * 100

\* a baseline under the floor, no therapy at all: the floor lifts it
C10_Witness ==
    /\ ldl_out.called
    /\ ldl_in.baseline_ldl < 10
    /\ ldl_in.statin = "None"
    /\ ~ldl_in.ez
    /\ ldl_out.adj_ldl = 100000

=============================================================================
